---- MODULE Spec2Model ----
(***************************************************************************)
(* Model of the Research Agent dashboard (bot.py, news.py): the "Start     *)
(* Research" handler as a step machine with one step per external call,    *)
(* and its pure parts (section extraction, search-response normalisation,  *)
(* news fetch) as operators computed the way the Python code computes them.*)
(*                                                                         *)
(* A text (a Python str) is a sequence of tokens.  The three section       *)
(* headers are single tokens: no header is a prefix, suffix or infix of    *)
(* another, so str.split on a header sees exactly the token occurrences.   *)
(***************************************************************************)
EXTENDS Naturals, Sequences, FiniteSets, TLC

VARIABLES
    pc,                 \* position of the script run
    keywords_input,     \* st.text_area value, as its lines (split on '\n')
    max_results,        \* st.slider value
    keywords,           \* parsed keyword list
    kwIdx,              \* index of the keyword the current loop is at
    ddg_results,        \* last return value of search_with_agent
    search_results,     \* records collected by the search loop
    owner,              \* history: owner[j] = keyword index that added search_results[j]
    searchLog,          \* history: per keyword, did the agent run fail
    st_messages,        \* st.error / st.warning messages shown, in order
    content_ideas,      \* return value of generate_content_ideas
    articles,           \* local list of fetch_news_articles
    news_articles,      \* return value of fetch_news_articles
    artIdx,             \* index of the article being displayed
    social_content,     \* return value of generate_social_posts
    twitter_content,
    linkedin_content,
    instagram_content,
    article_ideas,      \* return value of generate_content_ideas_from_article
    main_linkedin_post,
    altIdx,             \* index of the alternative angle
    alt_linkedin_post,
    calls,              \* history: how often each external call was attempted
    abortedBy,          \* the function whose exception ended the script run
    run_content,        \* search_with_agent alone: the agent run it is given
    fetch_input,        \* fetch_trending_articles alone: one response per keyword
    fetch_result        \* fetch_trending_articles alone: its outcome

vars == <<pc, keywords_input, max_results, keywords, kwIdx, ddg_results,
          search_results, owner, searchLog, st_messages, content_ideas,
          articles, news_articles, artIdx, social_content, twitter_content,
          linkedin_content, instagram_content, article_ideas,
          main_linkedin_post, altIdx, alt_linkedin_post, calls, abortedBy,
          run_content, fetch_input, fetch_result>>

----------------------------------------------------------------------------
(* Bounds of the model *)

MaxTextLen == 7      \* tokens in a generated text (section extractor alone)
MaxLines == 2        \* lines of the keyword input
MaxLimit == 2        \* largest slider value tried (the slider goes to 10)
MaxItems == 2        \* items in a list / mapping search response
MaxArticles == 2     \* articles in one news API response
MaxFetchKeywords == 2  \* keywords handed to fetch_trending_articles alone

(* Program constants *)

SliderMin == 1       \* st.slider(min_value=1)
NumAngles == 3       \* the three alternative LinkedIn angles

----------------------------------------------------------------------------
(* Generic sequence helpers *)

Min(a, b) == IF a <= b THEN a ELSE b

\* a variant of the slice that keeps everything
Take_All(s, n) == s

\* Python's s[:n]
Take(s, n) == SubSeq(s, 1, Min(n, Len(s)))

\* Python's s[n:] with 0-based n, i.e. everything after the first n elements
Drop(s, n) == SubSeq(s, n + 1, Len(s))

\* smallest index of tok in s from position i on, 0 when absent
RECURSIVE IndexFrom(_, _, _)
IndexFrom(s, tok, i) ==
    IF i > Len(s) THEN 0
    ELSE IF s[i] = tok THEN i
    ELSE IndexFrom(s, tok, i + 1)

IndexOf(s, tok) == IndexFrom(s, tok, 1)

RECURSIVE Flatten(_)
Flatten(ss) == IF ss = <<>> THEN <<>> ELSE Head(ss) \o Flatten(Tail(ss))

RECURSIVE SeqsUpTo(_, _)
SeqsUpTo(S, n) ==
    IF n = 0 THEN {<<>>}
    ELSE LET shorter == SeqsUpTo(S, n - 1)
         IN  shorter \cup {Append(s, x) : s \in {t \in shorter : Len(t) = n - 1}, x \in S}

----------------------------------------------------------------------------
(* Texts *)

TwitterHeader == "Twitter Post:"
LinkedInHeader == "LinkedIn Post:"
InstagramHeader == "Instagram Post:"
Headers == {TwitterHeader, LinkedInHeader, InstagramHeader}
Space == " "
Tokens == Headers \cup {Space, "x"}

ErrTwitter == <<"Error generating Twitter content">>
ErrLinkedIn == <<"Error generating LinkedIn content">>
ErrInstagram == <<"Error generating Instagram content">>

\* str.split(sep): the parts between the occurrences of sep, left to right
RECURSIVE split(_, _)
split(s, sep) ==
    LET i == IndexOf(s, sep)
    IN  IF i = 0 THEN <<s>>
        ELSE <<SubSeq(s, 1, i - 1)>> \o split(Drop(s, i), sep)

RECURSIVE lstrip(_)
lstrip(s) == IF s # <<>> /\ Head(s) = Space THEN lstrip(Tail(s)) ELSE s

RECURSIVE rstrip(_)
rstrip(s) ==
    IF s # <<>> /\ s[Len(s)] = Space THEN rstrip(SubSeq(s, 1, Len(s) - 1)) ELSE s

\* str.strip()
strip(s) == rstrip(lstrip(s))

----------------------------------------------------------------------------
(* Section extraction (bot.py, the three try/except IndexError blocks).    *)
(* parts[2] is Python's [1]; a missing [1] is the IndexError the except    *)
(* clause turns into the placeholder.  [0] of a split always exists.       *)

\* a variant that forgets .strip()
ExtractTwitter_NoStrip(text) ==
    LET parts == split(text, TwitterHeader)
    IN  IF Len(parts) < 2 THEN ErrTwitter
        ELSE split(parts[2], LinkedInHeader)[1]

ExtractTwitter(text) ==
    LET parts == split(text, TwitterHeader)
    IN  IF Len(parts) < 2 THEN ErrTwitter
        ELSE strip(split(parts[2], LinkedInHeader)[1])

\* a variant that yields an empty section, not the placeholder, for a missing header
ExtractLinkedIn_EmptyOnMiss(text) ==
    LET parts == split(text, LinkedInHeader)
    IN  IF Len(parts) < 2 THEN <<>>
        ELSE strip(split(parts[2], InstagramHeader)[1])

ExtractLinkedIn(text) ==
    LET parts == split(text, LinkedInHeader)
    IN  IF Len(parts) < 2 THEN ErrLinkedIn
        ELSE strip(split(parts[2], InstagramHeader)[1])

ExtractInstagram(text) ==
    LET parts == split(text, InstagramHeader)
    IN  IF Len(parts) < 2 THEN ErrInstagram
        ELSE strip(parts[2])

----------------------------------------------------------------------------
(* search_with_agent (bot.py).  An agent run either raises or has a        *)
(* content: a str, a dict (with or without a 'results' key), a list, or    *)
(* something else, of which only str(content) is used.  An item of a list  *)
(* is a dict (a function from some keys to values) or not a dict, and      *)
(* item.get on a non-dict raises AttributeError inside the try.            *)

ItemKeys == {"title", "link", "snippet"}
ItemVals == {"a", "b"}

Items == {[dict |-> TRUE, fields |-> f] :
             f \in UNION {[S -> ItemVals] : S \in SUBSET ItemKeys}}
NonDictItem == [dict |-> FALSE, fields |-> <<>>]

RunRaises == [raised |-> TRUE, kind |-> "none", text |-> "", has_results |-> FALSE, items |-> <<>>]
RunStr(s) == [raised |-> FALSE, kind |-> "str", text |-> s, has_results |-> FALSE, items |-> <<>>]
RunList(its) == [raised |-> FALSE, kind |-> "list", text |-> "", has_results |-> FALSE, items |-> its]
RunDict(its) == [raised |-> FALSE, kind |-> "dict", text |-> "", has_results |-> TRUE, items |-> its]
RunDictNoResults == [raised |-> FALSE, kind |-> "dict", text |-> "{}", has_results |-> FALSE, items |-> <<>>]
RunOther == [raised |-> FALSE, kind |-> "other", text |-> "None", has_results |-> FALSE, items |-> <<>>]

\* the run is one the spec calls a failure: it raised (network error) or its
\* list of results holds something that is no record (malformed response)
RunFails(run) ==
    \/ run.raised
    \/ /\ run.kind = "list" \/ (run.kind = "dict" /\ run.has_results)
       /\ \E i \in 1..Len(run.items) : ~run.items[i].dict

\* dict.get(key, default)
get(item, key, default) ==
    IF key \in DOMAIN item.fields THEN item.fields[key] ELSE default

\* a variant whose default title is the empty string
SearchRecord_EmptyTitle(item) ==
    [title |-> get(item, "title", ""),
     link |-> get(item, "link", ""),
     snippet |-> get(item, "snippet", "")]

SearchRecord(item) ==
    [title |-> get(item, "title", "No title"),
     link |-> get(item, "link", ""),
     snippet |-> get(item, "snippet", "")]

\* the list comprehension over the items; one non-dict item fails it whole
Comprehension(items) ==
    IF \A i \in 1..Len(items) : items[i].dict
    THEN [results |-> [i \in 1..Len(items) |-> SearchRecord(items[i])], failed |-> FALSE]
    ELSE [results |-> <<>>, failed |-> TRUE]

\* a variant whose except branch returns a record describing the error
search_with_agent_ErrorRecord(run) ==
    LET error == [results |-> <<[title |-> "Search Result", link |-> "",
                                 snippet |-> "error"]>>,
                  failed |-> TRUE]
        text == [results |-> <<[title |-> "Search Result", link |-> "",
                                snippet |-> run.text]>>,
                 failed |-> FALSE]
        listed == IF Comprehension(run.items).failed THEN error
                  ELSE Comprehension(run.items)
    IN  IF run.raised THEN error
        ELSE IF run.kind = "str" THEN text
        ELSE IF run.kind = "dict" /\ run.has_results THEN listed
        ELSE IF run.kind = "list" THEN listed
        ELSE text

\* failed = the except branch ran: st.error("Search failed: ...") and return []
search_with_agent(run) ==
    IF run.raised THEN [results |-> <<>>, failed |-> TRUE]
    ELSE IF run.kind = "str"
    THEN [results |-> <<[title |-> "Search Result", link |-> "", snippet |-> run.text]>>,
          failed |-> FALSE]
    ELSE IF run.kind = "dict" /\ run.has_results THEN Comprehension(run.items)
    ELSE IF run.kind = "list" THEN Comprehension(run.items)
    ELSE [results |-> <<[title |-> "Search Result", link |-> "", snippet |-> run.text]>>,
          failed |-> FALSE]

----------------------------------------------------------------------------
(* fetch_trending_articles (news.py).  One response per keyword: the GET   *)
(* raises, or answers with a status code; a 200 body decodes or not, and   *)
(* holds an 'articles' list or no such key.                                *)

ArticleKeys == {"title", "description", "content", "url"}

FullArticle == [k \in ArticleKeys |-> "a"]
TitleOnlyArticle == [k \in {"title"} |-> "b"]
EmptyArticle == [k \in {} |-> "a"]
RawArticles == {FullArticle, TitleOnlyArticle, EmptyArticle}

GetRaises == [get_raises |-> TRUE, status_code |-> 0, json_raises |-> FALSE,
              has_articles |-> FALSE, articles |-> <<>>]
Status(code) == [get_raises |-> FALSE, status_code |-> code, json_raises |-> FALSE,
                 has_articles |-> FALSE, articles |-> <<>>]
JsonRaises == [get_raises |-> FALSE, status_code |-> 200, json_raises |-> TRUE,
               has_articles |-> FALSE, articles |-> <<>>]
Ok(as) == [get_raises |-> FALSE, status_code |-> 200, json_raises |-> FALSE,
           has_articles |-> TRUE, articles |-> as]
OkNoArticlesKey == [get_raises |-> FALSE, status_code |-> 200, json_raises |-> FALSE,
                    has_articles |-> FALSE, articles |-> <<>>]

\* article.get(key, '')
aget(article, key) == IF key \in DOMAIN article THEN article[key] ELSE ""

Article(raw) ==
    [title |-> aget(raw, "title"), description |-> aget(raw, "description"),
     content |-> aget(raw, "content"), url |-> aget(raw, "url")]

\* data.get('articles', []) mapped to article records
ArticlesOf(resp) ==
    IF resp.has_articles
    THEN [i \in 1..Len(resp.articles) |-> Article(resp.articles[i])]
    ELSE <<>>

\* the for loop: acc is `articles`, gets the GETs issued, printed the
\* "Error fetching articles" lines; an exception leaves the function at once
RECURSIVE fetch_loop(_, _, _, _)
fetch_loop(resps, acc, gets, printed) ==
    IF resps = <<>>
    THEN [raised |-> FALSE, articles |-> acc, gets |-> gets, printed |-> printed]
    ELSE LET resp == Head(resps)
         IN  IF resp.get_raises
             THEN [raised |-> TRUE, articles |-> <<>>, gets |-> gets + 1, printed |-> printed]
             ELSE IF resp.status_code = 200
             THEN IF resp.json_raises
                  THEN [raised |-> TRUE, articles |-> <<>>, gets |-> gets + 1,
                        printed |-> printed]
                  ELSE fetch_loop(Tail(resps), acc \o ArticlesOf(resp), gets + 1, printed)
             ELSE fetch_loop(Tail(resps), acc, gets + 1, printed + 1)

\* a variant that gives up at the first non-200 answer
RECURSIVE fetch_loop_stop(_, _, _, _)
fetch_loop_stop(resps, acc, gets, printed) ==
    IF resps = <<>>
    THEN [raised |-> FALSE, articles |-> acc, gets |-> gets, printed |-> printed]
    ELSE LET resp == Head(resps)
         IN  IF resp.get_raises \/ (resp.status_code = 200 /\ resp.json_raises)
             THEN [raised |-> TRUE, articles |-> <<>>, gets |-> gets + 1, printed |-> printed]
             ELSE IF resp.status_code = 200
             THEN fetch_loop_stop(Tail(resps), acc \o ArticlesOf(resp), gets + 1, printed)
             ELSE [raised |-> FALSE, articles |-> acc, gets |-> gets + 1,
                   printed |-> printed + 1]

fetch_trending_articles_StopsAtError(resps) == fetch_loop_stop(resps, <<>>, 0, 0)

fetch_trending_articles(resps) == fetch_loop(resps, <<>>, 0, 0)

----------------------------------------------------------------------------
(* The generation functions.  An agent run raises or returns a content.    *)
(* generate_content_ideas (bot.py) wraps the run in try/except; the three  *)
(* functions of news.py call agent.run with no handler around it.          *)

FailedIdeas == "Failed to generate content ideas."

GenRaises(empty) == [raised |-> TRUE, content |-> empty]
GenReturns(c) == [raised |-> FALSE, content |-> c]

generate_content_ideas(run) ==
    IF run.raised
    THEN [raised |-> FALSE, value |-> FailedIdeas, failed |-> TRUE]
    ELSE [raised |-> FALSE, value |-> run.content, failed |-> FALSE]

generate_social_posts(run) == [raised |-> run.raised, value |-> run.content]

generate_content_ideas_from_article(run) == [raised |-> run.raised, value |-> run.content]

generate_linkedin_post(run) == [raised |-> run.raised, value |-> run.content]

----------------------------------------------------------------------------
(* The "Start Research" handler (bot.py, the body of the st.button if)     *)

\* the lines a user may type: empty, blank, a keyword with padding
Lines == {<<>>, <<Space>>, <<Space, "x">>}

NonBlank(line) == strip(line) # <<>>

\* [k.strip() for k in keywords_input.split('\n') if k.strip()]
ParseKeywords(lines) ==
    LET kept == SelectSeq(lines, NonBlank)
    IN  [i \in 1..Len(kept) |-> strip(kept[i])]

\* truthiness of the str: only the empty string, whose split is [''], is falsy
Truthy(lines) == lines # << <<>> >>

\* what the environment may answer inside one handler run
ItemA == [dict |-> TRUE, fields |-> [k \in ItemKeys |-> "a"]]
ItemB == [dict |-> TRUE, fields |-> [k \in {"title"} |-> "b"]]
LongItems == [i \in 1..(MaxLimit + 1) |-> IF i % 2 = 1 THEN ItemA ELSE ItemB]

HandlerRuns ==
    {RunRaises, RunStr("a"), RunList(LongItems), RunDict(<<ItemA, NonDictItem>>)}

HandlerNews ==
    {GetRaises, Status(404), JsonRaises,
     Ok(<<FullArticle>>), Ok(<<FullArticle, TitleOnlyArticle>>)}

FullText == <<TwitterHeader, "x", LinkedInHeader, "x", InstagramHeader, "x">>
NoLinkedInText == <<TwitterHeader, "x", InstagramHeader, "x">>
SocialTexts == {FullText, NoLinkedInText}

Markdown == {"md"}

\* calls is the log of the external calls attempted: <<name, i, j>> is the
\* call `name` for keyword or article i (0: none) and angle j (0: none)
Bump(c, name, i, j) == Append(c, <<name, i, j>>)
Count(c, name, i, j) == Cardinality({n \in 1..Len(c) : c[n] = <<name, i, j>>})

\* news_articles[:max_results], the articles the page shows
Displayed == Take(news_articles, max_results)

\* every variable the script has not yet assigned
Unassigned ==
    /\ keywords = <<>>
    /\ kwIdx = 1
    /\ ddg_results = <<>>
    /\ search_results = <<>>
    /\ owner = <<>>
    /\ searchLog = <<>>
    /\ st_messages = <<>>
    /\ content_ideas = ""
    /\ articles = <<>>
    /\ news_articles = <<>>
    /\ artIdx = 1
    /\ twitter_content = <<>>
    /\ linkedin_content = <<>>
    /\ instagram_content = <<>>
    /\ article_ideas = ""
    /\ main_linkedin_post = ""
    /\ altIdx = 1
    /\ alt_linkedin_post = ""
    /\ calls = <<>>
    /\ abortedBy = "none"
    /\ fetch_result = <<>>

Init ==
    /\ pc = "idle"
    /\ keywords_input \in SeqsUpTo(Lines, MaxLines) \ {<<>>}
    /\ max_results \in SliderMin..MaxLimit
    /\ social_content = <<>>
    /\ run_content = <<>>
    /\ fetch_input = <<>>
    /\ Unassigned

\* if st.button("Start Research"): if keywords_input: keywords = [...]
StartResearch ==
    /\ pc = "idle"
    /\ IF Truthy(keywords_input)
       THEN /\ keywords' = ParseKeywords(keywords_input)
            /\ pc' = "search"
            /\ UNCHANGED st_messages
       ELSE /\ st_messages' = Append(st_messages, "Please enter at least one keyword")
            /\ pc' = "done"
            /\ UNCHANGED keywords
    /\ UNCHANGED <<keywords_input, max_results, kwIdx, ddg_results, search_results,
                   owner, searchLog, content_ideas, articles, news_articles, artIdx,
                   social_content, twitter_content, linkedin_content,
                   instagram_content, article_ideas, main_linkedin_post, altIdx,
                   alt_linkedin_post, calls, abortedBy, run_content, fetch_input,
                   fetch_result>>

\* one iteration of `for keyword in keywords:` of the search loop
SearchStep ==
    /\ pc = "search"
    /\ kwIdx <= Len(keywords)
    /\ \E run \in HandlerRuns :
         LET r == search_with_agent(run)
             added == Take(r.results, max_results)
         IN  /\ ddg_results' = r.results
             /\ search_results' = search_results \o added
             /\ owner' = owner \o [i \in 1..Len(added) |-> kwIdx]
             /\ searchLog' = Append(searchLog, RunFails(run))
             /\ st_messages' = IF r.failed THEN Append(st_messages, "Search failed")
                               ELSE st_messages
    /\ calls' = Bump(calls, "search", kwIdx, 0)
    /\ kwIdx' = kwIdx + 1
    /\ UNCHANGED <<pc, keywords_input, max_results, keywords, content_ideas, articles,
                   news_articles, artIdx, social_content, twitter_content,
                   linkedin_content, instagram_content, article_ideas,
                   main_linkedin_post, altIdx, alt_linkedin_post, abortedBy,
                   run_content, fetch_input, fetch_result>>

\* with search_tab: the loop is over; warn when nothing was found
SearchDisplay ==
    /\ pc = "search"
    /\ kwIdx > Len(keywords)
    /\ st_messages' = IF search_results = <<>>
                      THEN Append(st_messages, "No results found.")
                      ELSE st_messages
    /\ pc' = "ideas"
    /\ UNCHANGED <<keywords_input, max_results, keywords, kwIdx, ddg_results,
                   search_results, owner, searchLog, content_ideas, articles,
                   news_articles, artIdx, social_content, twitter_content,
                   linkedin_content, instagram_content, article_ideas,
                   main_linkedin_post, altIdx, alt_linkedin_post, calls, abortedBy,
                   run_content, fetch_input, fetch_result>>

\* with ideas_tab: content_ideas = generate_content_ideas(keywords)
IdeasStep ==
    /\ pc = "ideas"
    /\ \E run \in {GenRaises("")} \cup {GenReturns(c) : c \in Markdown} :
         LET r == generate_content_ideas(run)
         IN  /\ content_ideas' = r.value
             /\ st_messages' = IF r.failed
                               THEN Append(st_messages, "Content generation failed")
                               ELSE st_messages
             /\ IF r.raised
                THEN pc' = "aborted" /\ abortedBy' = "generate_content_ideas"
                ELSE pc' = "news" /\ UNCHANGED abortedBy
    /\ calls' = Bump(calls, "content_ideas", 0, 0)
    /\ kwIdx' = 1
    /\ UNCHANGED <<keywords_input, max_results, keywords, ddg_results, search_results,
                   owner, searchLog, articles, news_articles, artIdx, social_content,
                   twitter_content, linkedin_content, instagram_content,
                   article_ideas, main_linkedin_post, altIdx, alt_linkedin_post,
                   run_content, fetch_input, fetch_result>>

\* fetch_news_articles: articles.extend(fetch_trending_articles(KEY, [keyword.strip()]))
NewsStep ==
    /\ pc = "news"
    /\ kwIdx <= Len(keywords)
    /\ \E resp \in HandlerNews :
         LET r == fetch_trending_articles(<<resp>>)
         IN  /\ calls' = calls \o [n \in 1..r.gets |-> <<"news_get", kwIdx, 0>>]
             /\ IF r.raised
                THEN /\ pc' = "aborted"
                     /\ abortedBy' = "fetch_trending_articles"
                     /\ UNCHANGED <<articles, kwIdx>>
                ELSE /\ articles' = articles \o r.articles
                     /\ kwIdx' = kwIdx + 1
                     /\ UNCHANGED <<pc, abortedBy>>
    /\ UNCHANGED <<keywords_input, max_results, keywords, ddg_results, search_results,
                   owner, searchLog, st_messages, content_ideas, news_articles, artIdx,
                   social_content, twitter_content, linkedin_content,
                   instagram_content, article_ideas, main_linkedin_post, altIdx,
                   alt_linkedin_post, run_content, fetch_input, fetch_result>>

\* news_articles = fetch_news_articles(keywords); if not news_articles: st.warning
NewsDisplay ==
    /\ pc = "news"
    /\ kwIdx > Len(keywords)
    /\ news_articles' = articles
    /\ IF articles = <<>>
       THEN /\ st_messages' = Append(st_messages, "No news articles found.")
            /\ pc' = "done"
       ELSE /\ pc' = "social"
            /\ UNCHANGED st_messages
    /\ artIdx' = 1
    /\ UNCHANGED <<keywords_input, max_results, keywords, kwIdx, ddg_results,
                   search_results, owner, searchLog, content_ideas, articles,
                   social_content, twitter_content, linkedin_content,
                   instagram_content, article_ideas, main_linkedin_post, altIdx,
                   alt_linkedin_post, calls, abortedBy, run_content, fetch_input,
                   fetch_result>>

\* tabs[0]: social_content = generate_social_posts(...), then the three columns
SocialStep ==
    /\ pc = "social"
    /\ \E run \in {GenRaises(<<>>)} \cup {GenReturns(t) : t \in SocialTexts} :
         LET r == generate_social_posts(run)
         IN  IF r.raised
             THEN /\ pc' = "aborted"
                  /\ abortedBy' = "generate_social_posts"
                  /\ UNCHANGED <<social_content, twitter_content, linkedin_content,
                                 instagram_content>>
             ELSE /\ social_content' = r.value
                  /\ twitter_content' = ExtractTwitter(r.value)
                  /\ linkedin_content' = ExtractLinkedIn(r.value)
                  /\ instagram_content' = ExtractInstagram(r.value)
                  /\ pc' = "article_ideas"
                  /\ UNCHANGED abortedBy
    /\ calls' = Bump(calls, "social_posts", artIdx, 0)
    /\ UNCHANGED <<keywords_input, max_results, keywords, kwIdx, ddg_results,
                   search_results, owner, searchLog, st_messages, content_ideas,
                   articles, news_articles, artIdx, article_ideas,
                   main_linkedin_post, altIdx, alt_linkedin_post, run_content,
                   fetch_input, fetch_result>>

\* tabs[1]: article_ideas = generate_content_ideas_from_article(...)
ArticleIdeasStep ==
    /\ pc = "article_ideas"
    /\ \E run \in {GenRaises("")} \cup {GenReturns(c) : c \in Markdown} :
         LET r == generate_content_ideas_from_article(run)
         IN  IF r.raised
             THEN /\ pc' = "aborted"
                  /\ abortedBy' = "generate_content_ideas_from_article"
                  /\ UNCHANGED article_ideas
             ELSE /\ article_ideas' = r.value
                  /\ pc' = "main_linkedin"
                  /\ UNCHANGED abortedBy
    /\ calls' = Bump(calls, "article_ideas", artIdx, 0)
    /\ UNCHANGED <<keywords_input, max_results, keywords, kwIdx, ddg_results,
                   search_results, owner, searchLog, st_messages, content_ideas,
                   articles, news_articles, artIdx, social_content, twitter_content,
                   linkedin_content, instagram_content, main_linkedin_post, altIdx,
                   alt_linkedin_post, run_content, fetch_input, fetch_result>>

\* tabs[2]: main_linkedin_post = generate_linkedin_post(..., "Main article theme")
MainLinkedInStep ==
    /\ pc = "main_linkedin"
    /\ \E run \in {GenRaises("")} \cup {GenReturns(c) : c \in Markdown} :
         LET r == generate_linkedin_post(run)
         IN  IF r.raised
             THEN /\ pc' = "aborted"
                  /\ abortedBy' = "generate_linkedin_post"
                  /\ UNCHANGED main_linkedin_post
             ELSE /\ main_linkedin_post' = r.value
                  /\ pc' = "alt_linkedin"
                  /\ UNCHANGED abortedBy
    /\ calls' = Bump(calls, "main_linkedin", artIdx, 0)
    /\ altIdx' = 1
    /\ UNCHANGED <<keywords_input, max_results, keywords, kwIdx, ddg_results,
                   search_results, owner, searchLog, st_messages, content_ideas,
                   articles, news_articles, artIdx, social_content, twitter_content,
                   linkedin_content, instagram_content, article_ideas,
                   alt_linkedin_post, run_content, fetch_input, fetch_result>>

\* one iteration of `for i, (angle, tab) in enumerate(zip(angles, alt_tabs)):`;
\* after the last angle the article loop moves to the next displayed article
AltLinkedInStep ==
    /\ pc = "alt_linkedin"
    /\ altIdx <= NumAngles
    /\ \E run \in {GenRaises("")} \cup {GenReturns(c) : c \in Markdown} :
         LET r == generate_linkedin_post(run)
         IN  IF r.raised
             THEN /\ pc' = "aborted"
                  /\ abortedBy' = "generate_linkedin_post"
                  /\ UNCHANGED <<alt_linkedin_post, altIdx, artIdx>>
             ELSE /\ alt_linkedin_post' = r.value
                  /\ UNCHANGED abortedBy
                  /\ IF altIdx < NumAngles
                     THEN /\ altIdx' = altIdx + 1
                          /\ UNCHANGED <<pc, artIdx>>
                     ELSE /\ UNCHANGED altIdx
                          /\ artIdx' = artIdx + 1
                          /\ pc' = IF artIdx + 1 <= Len(Displayed) THEN "social"
                                   ELSE "done"
    /\ calls' = Bump(calls, "alt_linkedin", artIdx, altIdx)
    /\ UNCHANGED <<keywords_input, max_results, keywords, kwIdx, ddg_results,
                   search_results, owner, searchLog, st_messages, content_ideas,
                   articles, news_articles, social_content, twitter_content,
                   linkedin_content, instagram_content, article_ideas,
                   main_linkedin_post, run_content, fetch_input, fetch_result>>

Next ==
    \/ StartResearch
    \/ SearchStep
    \/ SearchDisplay
    \/ IdeasStep
    \/ NewsStep
    \/ NewsDisplay
    \/ SocialStep
    \/ ArticleIdeasStep
    \/ MainLinkedInStep
    \/ AltLinkedInStep

Spec == Init /\ [][Next]_vars

(* What the handler claims speak of *)

GenerationFunctions ==
    {"generate_content_ideas", "generate_social_posts",
     "generate_content_ideas_from_article", "generate_linkedin_post"}

Ended == pc \in {"done", "aborted"}

\* no external call is ever attempted a second time
NoCallRepeated == \A n, m \in 1..Len(calls) : calls[n] = calls[m] => n = m

\* C1: a generation call that raises yields a fallback string and no exception
\* leaves the calling component: no script run is ended by an exception of
\* one of the four generation functions.
C1_GenerationFailureContained ==
    ~(pc = "aborted" /\ abortedBy \in GenerationFunctions)

\* C3: a news GET that raises, or a body that fails to decode, is recovered
\* per keyword: it never ends the script run.
C3_NewsFailureRecovered ==
    ~(pc = "aborted" /\ abortedBy = "fetch_trending_articles")

\* C4: each keyword contributes at most max_results records, so the search
\* loop holds at most (keywords searched) * max_results records, at most
\* |K| * max_results when it is over, and the records of a keyword precede
\* those of the next keyword.
C4_PerKeywordLimit ==
    /\ Len(owner) = Len(search_results)
    /\ \A k \in 1..Len(keywords) :
          Cardinality({j \in 1..Len(owner) : owner[j] = k}) <= max_results
    /\ \A i, j \in 1..Len(owner) : i < j => owner[i] <= owner[j]
    /\ Len(search_results) <= Len(searchLog) * max_results
    /\ Len(search_results) <= Len(keywords) * max_results

\* two keywords, each cut down to max_results records
C4_Witness ==
    /\ pc = "ideas"
    /\ Len(keywords) = 2
    /\ Len(ddg_results) > max_results
    /\ Len(search_results) = 2 * max_results
    /\ Cardinality({j \in 1..Len(owner) : owner[j] = 1}) = max_results

\* C5: a search step whose agent run fails returns an empty list, reports
\* "Search failed", leaves the records collected so far as they were and moves
\* on to the next keyword; and once the loop is over every keyword has had
\* its search, failed or not.
C5_SearchFailureSkipsKeyword ==
    /\ [](pc \notin {"idle", "search"} /\ Truthy(keywords_input)
             => Len(searchLog) = Len(keywords))
    /\ [][(pc = "search" /\ Len(searchLog') = Len(searchLog) + 1
            /\ searchLog'[Len(searchLog')])
           => /\ ddg_results' = <<>>
              /\ search_results' = search_results
              /\ st_messages' = Append(st_messages, "Search failed")
              /\ pc' = "search"
              /\ kwIdx' = kwIdx + 1]_vars

\* the first keyword failed, the second was searched and gave records
C5_Witness ==
    /\ searchLog = <<TRUE, FALSE>>
    /\ search_results # <<>>
    /\ st_messages = <<"Search failed">>
    /\ \A j \in 1..Len(owner) : owner[j] = 2

\* C10: when a Start Research action with a non-empty input has ended, every
\* external call has been attempted exactly once: one search and one news GET
\* per keyword, one keyword content-ideas generation, and per displayed
\* article one social-posts, one article-ideas, one main LinkedIn and one
\* LinkedIn generation per alternative angle.
C10_EveryCallExactlyOnce ==
    (Ended /\ Truthy(keywords_input)) =>
        /\ \A k \in 1..Len(keywords) :
              Count(calls, "search", k, 0) = 1 /\ Count(calls, "news_get", k, 0) = 1
        /\ Count(calls, "content_ideas", 0, 0) = 1
        /\ \A a \in 1..Len(Displayed) :
              /\ Count(calls, "social_posts", a, 0) = 1
              /\ Count(calls, "article_ideas", a, 0) = 1
              /\ Count(calls, "main_linkedin", a, 0) = 1
              /\ \A j \in 1..NumAngles : Count(calls, "alt_linkedin", a, j) = 1

\* the input has no non-blank line
NoKeywordLine == \A i \in 1..Len(keywords_input) : strip(keywords_input[i]) = <<>>

\* the empty input alone makes no external call and is answered with the message
EmptyInputMakesNoCall ==
    (~Truthy(keywords_input) /\ pc # "idle") =>
        calls = <<>> /\ st_messages = <<"Please enter at least one keyword">>

\* C11: an input with no non-blank line (empty, or only blank lines) makes no
\* external call, and once the action has run the user has been told to enter
\* at least one keyword.
C11_NoCallWithoutKeyword ==
    NoKeywordLine =>
        /\ calls = <<>>
        /\ Ended =>
              \E n \in 1..Len(st_messages) :
                  st_messages[n] = "Please enter at least one keyword"

----------------------------------------------------------------------------
(* The section extraction alone, on every text of up to MaxTextLen tokens  *)

InitExtract ==
    /\ pc = "extract_ready"
    /\ \E n \in 0..MaxTextLen : social_content \in [1..n -> Tokens]
    /\ keywords_input = << <<>> >>
    /\ max_results = SliderMin
    /\ run_content = <<>>
    /\ fetch_input = <<>>
    /\ Unassigned

ExtractSections ==
    /\ pc = "extract_ready"
    /\ twitter_content' = ExtractTwitter(social_content)
    /\ linkedin_content' = ExtractLinkedIn(social_content)
    /\ instagram_content' = ExtractInstagram(social_content)
    /\ pc' = "extracted"
    /\ UNCHANGED <<keywords_input, max_results, keywords, kwIdx, ddg_results,
                   search_results, owner, searchLog, st_messages, content_ideas,
                   articles, news_articles, artIdx, social_content, article_ideas,
                   main_linkedin_post, altIdx, alt_linkedin_post, calls, abortedBy,
                   run_content, fetch_input, fetch_result>>

NextExtract == ExtractSections

SpecExtract == InitExtract /\ [][NextExtract]_vars

(* What the section-extractor claims speak of *)

Has(text, header) == IndexOf(text, header) # 0
Occurrences(text, header) == Cardinality({i \in 1..Len(text) : text[i] = header})
NoSpace(text) == LET NotSpace(tok) == tok # Space IN SelectSeq(text, NotSpace)

\* position of the first Twitter header, of the first LinkedIn header after
\* it, and of the first Instagram header after that (0: there is none)
PosTwitter(text) == IndexOf(text, TwitterHeader)
PosLinkedIn(text) ==
    IF PosTwitter(text) = 0 THEN 0
    ELSE IndexFrom(text, LinkedInHeader, PosTwitter(text) + 1)
PosInstagram(text) ==
    IF PosLinkedIn(text) = 0 THEN 0
    ELSE IndexFrom(text, InstagramHeader, PosLinkedIn(text) + 1)

\* the trimmed substring strictly between each header and the next
BodyTwitter(text) == strip(SubSeq(text, PosTwitter(text) + 1, PosLinkedIn(text) - 1))
BodyLinkedIn(text) == strip(SubSeq(text, PosLinkedIn(text) + 1, PosInstagram(text) - 1))
BodyInstagram(text) == strip(SubSeq(text, PosInstagram(text) + 1, Len(text)))

\* the three headers occur in order, each followed by a non-empty body
ThreeSectionsInOrder(text) ==
    /\ PosInstagram(text) # 0
    /\ BodyTwitter(text) # <<>>
    /\ BodyLinkedIn(text) # <<>>
    /\ BodyInstagram(text) # <<>>

EachHeaderOnce(text) == \A h \in Headers : Occurrences(text, h) = 1

SectionsAsSpecified ==
    /\ twitter_content = BodyTwitter(social_content)
    /\ linkedin_content = BodyLinkedIn(social_content)
    /\ instagram_content = BodyInstagram(social_content)
    /\ NoSpace(<<TwitterHeader>> \o twitter_content \o <<LinkedInHeader>>
               \o linkedin_content \o <<InstagramHeader>> \o instagram_content)
         = NoSpace(Drop(social_content, PosTwitter(social_content) - 1))

\* C2: a text with no "LinkedIn Post:" header gets the LinkedIn placeholder,
\* while the Twitter entry (header present) holds no Instagram header and the
\* Instagram entry (header present) is the trimmed text after its header.
C2_DegradedCaseExtractsNormally ==
    (pc = "extracted" /\ ~Has(social_content, LinkedInHeader)) =>
        /\ linkedin_content = ErrLinkedIn
        /\ Has(social_content, TwitterHeader) =>
               ~Has(twitter_content, InstagramHeader)
        /\ (Occurrences(social_content, InstagramHeader) = 1) =>
               instagram_content =
                   strip(Drop(social_content, IndexOf(social_content, InstagramHeader)))

\* C6 as stated: for every text holding the three headers in order with
\* non-empty bodies, each extracted value is the trimmed substring strictly
\* between its header and the next (the end of the text for the last), and the
\* values with the headers reinserted give back the sections in order.
C6_AnyTextWithHeadersInOrder ==
    (pc = "extracted" /\ ThreeSectionsInOrder(social_content)) => SectionsAsSpecified

\* C6 as amended: the same, for the texts in which each of the three headers
\* occurs exactly once.
C6_EachHeaderOnceInOrder ==
    (pc = "extracted" /\ ThreeSectionsInOrder(social_content)
        /\ EachHeaderOnce(social_content)) => SectionsAsSpecified

C6_Witness ==
    /\ pc = "extracted"
    /\ social_content = <<TwitterHeader, Space, "x", LinkedInHeader, "x",
                          InstagramHeader, "x">>
    /\ twitter_content = <<"x">>
    /\ linkedin_content = <<"x">>
    /\ instagram_content = <<"x">>

\* C7: whenever a header is absent from the text, its channel value is exactly
\* the placeholder "Error generating <Channel> content", for each of the three
\* channels and whether or not a later header is missing too; the extraction
\* always ends with three values.
C7_AbsentHeaderGivesPlaceholder ==
    pc = "extracted" =>
        /\ ~Has(social_content, TwitterHeader) => twitter_content = ErrTwitter
        /\ ~Has(social_content, LinkedInHeader) => linkedin_content = ErrLinkedIn
        /\ ~Has(social_content, InstagramHeader) => instagram_content = ErrInstagram

\* a later header is missing: Twitter present, LinkedIn and Instagram absent
C7_Witness ==
    /\ pc = "extracted"
    /\ Has(social_content, TwitterHeader)
    /\ ~Has(social_content, LinkedInHeader)
    /\ ~Has(social_content, InstagramHeader)
    /\ twitter_content = <<"x">>
    /\ linkedin_content = ErrLinkedIn
    /\ instagram_content = ErrInstagram

----------------------------------------------------------------------------
(* search_with_agent alone, on every agent run of up to MaxItems items     *)

ItemLists == SeqsUpTo(Items \cup {NonDictItem}, MaxItems)

AllRuns ==
    {RunRaises, RunDictNoResults, RunOther, RunStr(""), RunStr("a")}
    \cup {RunList(its) : its \in ItemLists}
    \cup {RunDict(its) : its \in ItemLists}

InitSearch ==
    /\ pc = "search_ready"
    /\ \E run \in AllRuns : run_content = <<run>>
    /\ keywords_input = << <<>> >>
    /\ max_results = SliderMin
    /\ social_content = <<>>
    /\ fetch_input = <<>>
    /\ Unassigned

ApplySearch ==
    /\ pc = "search_ready"
    /\ LET r == search_with_agent(run_content[1])
       IN  /\ ddg_results' = r.results
           /\ st_messages' = IF r.failed THEN Append(st_messages, "Search failed")
                             ELSE st_messages
    /\ pc' = "searched"
    /\ UNCHANGED <<keywords_input, max_results, keywords, kwIdx, search_results,
                   owner, searchLog, content_ideas, articles, news_articles, artIdx,
                   social_content, twitter_content, linkedin_content,
                   instagram_content, article_ideas, main_linkedin_post, altIdx,
                   alt_linkedin_post, calls, abortedBy, run_content, fetch_input,
                   fetch_result>>

NextSearch == ApplySearch

SpecSearch == InitSearch /\ [][NextSearch]_vars

\* C9: every record returned has exactly the keys title, link and snippet; a
\* plain string gives the one record ("Search Result", "", the string); a list
\* or a mapping with 'results' whose items are records gives one record per
\* item, in order, with a missing title replaced by "No title" and a missing
\* link or snippet by "".
C9_UniformRecords ==
    pc = "searched" =>
        LET run == run_content[1]
            Field(item, key, default) ==
                IF key \in DOMAIN item.fields THEN item.fields[key] ELSE default
        IN  /\ \A i \in 1..Len(ddg_results) : DOMAIN ddg_results[i] = ItemKeys
            /\ (~run.raised /\ run.kind = "str") =>
                   ddg_results =
                       <<[title |-> "Search Result", link |-> "", snippet |-> run.text]>>
            /\ (~run.raised /\ ~RunFails(run)
                    /\ (run.kind = "list" \/ (run.kind = "dict" /\ run.has_results))) =>
                   /\ Len(ddg_results) = Len(run.items)
                   /\ \A i \in 1..Len(run.items) :
                         /\ ddg_results[i].title = Field(run.items[i], "title", "No title")
                         /\ ddg_results[i].link = Field(run.items[i], "link", "")
                         /\ ddg_results[i].snippet = Field(run.items[i], "snippet", "")

\* a mapping whose two items lack a title, resp. a link and a snippet
C9_Witness ==
    /\ pc = "searched"
    /\ run_content = <<RunDict(<<[dict |-> TRUE, fields |-> [k \in {"link"} |-> "a"]],
                                 [dict |-> TRUE, fields |-> [k \in {"title"} |-> "b"]]>>)>>
    /\ ddg_results = <<[title |-> "No title", link |-> "a", snippet |-> ""],
                       [title |-> "b", link |-> "", snippet |-> ""]>>

----------------------------------------------------------------------------
(* fetch_trending_articles alone, on every list of up to MaxFetchKeywords  *)
(* keywords and every response to each                                     *)

NewsResponses ==
    {GetRaises, JsonRaises, OkNoArticlesKey, Status(404), Status(500)}
    \cup {Ok(as) : as \in SeqsUpTo(RawArticles, MaxArticles)}

InitFetch ==
    /\ pc = "fetch_ready"
    /\ fetch_input \in SeqsUpTo(NewsResponses, MaxFetchKeywords)
    /\ keywords_input = << <<>> >>
    /\ max_results = SliderMin
    /\ social_content = <<>>
    /\ run_content = <<>>
    /\ Unassigned

ApplyFetch ==
    /\ pc = "fetch_ready"
    /\ fetch_result' = <<fetch_trending_articles(fetch_input)>>
    /\ pc' = "fetched"
    /\ UNCHANGED <<keywords_input, max_results, keywords, kwIdx, ddg_results,
                   search_results, owner, searchLog, st_messages, content_ideas,
                   articles, news_articles, artIdx, social_content, twitter_content,
                   linkedin_content, instagram_content, article_ideas,
                   main_linkedin_post, altIdx, alt_linkedin_post, calls, abortedBy,
                   run_content, fetch_input>>

NextFetch == ApplyFetch

SpecFetch == InitFetch /\ [][NextFetch]_vars

Raises(resp) == resp.get_raises \/ (resp.status_code = 200 /\ resp.json_raises)

\* C8: a keyword answered with a status other than 200 contributes nothing
\* and does not raise (the call raises only for a keyword whose GET or decode
\* raises), the keywords after it are still fetched, and the list returned
\* holds exactly the articles of the keywords answered 200, in keyword order.
C8_Non200ContributesNothing ==
    pc = "fetched" =>
        LET r == fetch_result[1]
            n == Len(fetch_input)
            FirstRaising == CHOOSE i \in 1..n :
                /\ Raises(fetch_input[i])
                /\ \A j \in 1..(i - 1) : ~Raises(fetch_input[j])
        IN  /\ r.raised <=> \E i \in 1..n : Raises(fetch_input[i])
            /\ r.raised => r.gets = FirstRaising
            /\ ~r.raised =>
                  /\ r.gets = n
                  /\ r.printed = Cardinality({i \in 1..n : fetch_input[i].status_code # 200})
                  /\ r.articles =
                        Flatten([i \in 1..n |->
                                   IF fetch_input[i].status_code = 200
                                   THEN ArticlesOf(fetch_input[i]) ELSE <<>>])

\* a 404 for the first keyword, one article for the second
C8_Witness ==
    /\ pc = "fetched"
    /\ fetch_input = <<Status(404), Ok(<<TitleOnlyArticle>>)>>
    /\ fetch_result = <<[raised |-> FALSE,
                         articles |-> <<[title |-> "b", description |-> "",
                                         content |-> "", url |-> ""]>>,
                         gets |-> 2, printed |-> 1]>>

====
